---- MODULE Spec2Model ----
(***************************************************************************)
(* Usage-limit enforcement of the CreatorGenius backend:                   *)
(*   backend/config/limitConfig.js, backend/utils/usageUtil.js,            *)
(*   backend/middleware/usageLimitMiddleware.js, the guarded routes and    *)
(*   the feature handlers that touch the usage record.                     *)
(* One user document per user id; requests are Express pipelines           *)
(*   protect -> resetCounters -> guards -> handler                         *)
(* whose awaits (Mongoose calls, external API calls) are the atomic steps. *)
(***************************************************************************)
EXTENDS Integers, Sequences, FiniteSets, TLC

\* ---------------------------------------------------------------- bounds
NumReqs == 2
MaxCount == 7
LastMonth == 1
LastDate == 2
MaxTicks == 7
MaxDay == 3
Headroom == 2
StoreTicks == 2

Reqs == 1..NumReqs
UserIds == {"u1"}

\* ------------------------------------------------------------ calendar
\* A JavaScript Date in local time, cut down to the parts the code reads:
\* getFullYear(), getMonth() (0-based), getDate() (1-based) and the minute
\* of the day (0 = 00:00, 1 = 00:01, 1439 = 23:59).  The clock is read at
\* 00:01 and at 23:59 of each day; 00:00 is what setHours(0, 0, 0, 0) yields.
\* The model's year has months 0..LastMonth of LastDate days each, and the
\* clock stops MaxTicks readings after the first one.
Minutes == {1, 1439}

DateLT(a, b) ==
    \/ a.year < b.year
    \/ a.year = b.year /\ a.month < b.month
    \/ a.year = b.year /\ a.month = b.month /\ a.date < b.date
    \/ a.year = b.year /\ a.month = b.month /\ a.date = b.date
         /\ a.minute < b.minute

\* today.setHours(0, 0, 0, 0)
StartOfDay(d) == [d EXCEPT !.minute = 0]

\* A missing (falsy) timestamp
NoDate == [year |-> 0, month |-> 0, date |-> 0, minute |-> 0]

\* isBeforeToday without today.setHours(0, 0, 0, 0)
isBeforeTodayNoMidnight(date, today) ==
    IF date = NoDate THEN TRUE ELSE DateLT(date, today)

\* isBeforeToday(date), with `new Date()` passed as today
isBeforeToday(date, today) ==
    IF date = NoDate THEN TRUE ELSE DateLT(date, StartOfDay(today))

isAfterRenewalDate(lastReset, renewalDay, today) ==
    IF lastReset = NoDate THEN TRUE
    ELSE IF today.month # lastReset.month \/ today.year # lastReset.year
         THEN (today.date >= renewalDay \/ today.month # lastReset.month)
         ELSE FALSE

renewalDay == 1

\* ------------------------------------------------------- limitConfig.js
limitConfig ==
    [free |->
       [daily |-> [searchQueries |-> 5, seoAnalyses |-> 3,
                   trendIdeations |-> 5, insightsSaved |-> 10,
                   scriptGeneration |-> 3],
        monthly |-> [contentIdeations |-> 5, refinements |-> 3,
                     scriptGeneration |-> 15, scriptTransformations |-> 0],
        permanent |-> [calendarItems |-> 100, savedIdeas |-> 200,
                       insightsTotal |-> 200]],
     creator_pro |->
       [daily |-> [searchQueries |-> 10, seoAnalyses |-> 5,
                   trendIdeations |-> 5, insightsSaved |-> 10],
        monthly |-> [contentIdeations |-> -1, refinements |-> -1,
                     scriptGeneration |-> -1, scriptTransformations |-> -1,
                     insightsTotal |-> -1],
        permanent |-> [calendarItems |-> -1, savedIdeas |-> -1]],
     agency_growth |->
       [daily |-> [searchQueries |-> 1000, seoAnalyses |-> 500,
                   trendIdeations |-> 500, insightsSaved |-> 1000],
        monthly |-> [contentIdeations |-> -1, refinements |-> -1,
                     scriptGeneration |-> -1, scriptTransformations |-> -1,
                     insightsTotal |-> -1],
        permanent |-> [calendarItems |-> -1, savedIdeas |-> -1,
                       teamMembers |-> 5]]]

Tiers == DOMAIN limitConfig

\* is limitConfig[tier][limitType][featureKey] defined
HasLimit(tier, limitType, featureKey) ==
    featureKey \in DOMAIN limitConfig[tier][limitType]

\* the limitField arguments of storageLimit: one per entity collection
\* (SavedIdea, ScheduledIdea, Insight)
Collections == {"savedIdeas", "calendarItems", "insightsTotal"}

\* storageLimit reading a stored usage counter instead of counting documents
LiveCountFromUsage(docs, user, limitField) ==
    user.usage["insightsSavedThisMonth"]

\* collectionModel.countDocuments({ userId }): docs[k] documents of the user
\* are in collection k
LiveCount(docs, user, limitField) == docs[limitField]

\* storageLimit letting a request through when the count equals the ceiling
StorageAllowsAtCeiling(count, limit) == limit < 0 \/ count <= limit

\* storageLimit's "No limit (-1) or not reached"
StorageAllows(count, limit) == limit < 0 \/ count < limit

\* ------------------------------------------------ usage record (User.js)
DailyResetFields == {"dailySearchCount", "dailySeoAnalyses",
                     "dailyTrendIdeations", "dailyInsightsSaved"}
MonthlyResetFields == {"ideationsThisMonth", "refinementsThisMonth",
                       "scriptsGeneratedThisMonth",
                       "scriptTransformationsThisMonth",
                       "seoReportsThisMonth", "insightsSavedThisMonth"}

fieldMappings ==
    [daily |-> [searchQueries |-> "dailySearchCount",
                seoAnalyses |-> "dailySeoAnalyses",
                trendIdeations |-> "dailyTrendIdeations",
                insightsSaved |-> "dailyInsightsSaved"],
     monthly |-> [contentIdeations |-> "ideationsThisMonth",
                  refinements |-> "refinementsThisMonth",
                  scriptGeneration |-> "scriptsGeneratedThisMonth",
                  scriptTransformations |-> "scriptTransformationsThisMonth",
                  seoReports |-> "seoReportsThisMonth",
                  insights |-> "insightsSavedThisMonth"]]

\* `${featureKey}ThisMonth` for the configured keys that have no mapping
DerivedName(featureKey) ==
    CASE featureKey = "scriptGeneration" -> "scriptGenerationThisMonth"
      [] featureKey = "insightsTotal" -> "insightsTotalThisMonth"
      [] OTHER -> "otherThisMonth"

getFieldNameForFeature(limitType, featureKey) ==
    IF limitType \in DOMAIN fieldMappings
       /\ featureKey \in DOMAIN fieldMappings[limitType]
    THEN fieldMappings[limitType][featureKey]
    ELSE DerivedName(featureKey)

\* Counter attributes that any modelled write can touch.  A field absent
\* from the document reads as 0 (`|| 0`) and $inc creates it at 1, so absent
\* and 0 are one value here.
CounterFields == DailyResetFields \cup MonthlyResetFields
                 \cup {"scriptGenerationThisMonth", "insightsTotalThisMonth"}

TimeFields == {"lastSearchReset", "lastUsageReset"}
UsageFields == CounterFields \cup TimeFields

\* usage sub-document at account creation (schema defaults, Date.now)
NewUsage(t) ==
    [f \in UsageFields |-> IF f \in TimeFields THEN t ELSE 0]

NewUser(t) == [subscriptionTier |-> "free", usage |-> NewUsage(t)]

\* --------------------------------------------------- usageUtil.js (pure)
\* checkUsageLimit with `if (!limit)` in place of `if (!limit || limit < 0)`
checkUsageLimitOnlyFalsy(user, limitType, featureKey) ==
    LET tier == user.subscriptionTier
        tierLimits == limitConfig[tier][limitType]
        dbFieldName == getFieldNameForFeature(limitType, featureKey)
        currentUsage == user.usage[dbFieldName]
    IN  \* !limit alone: a negative ceiling is compared like any other
        IF featureKey \notin DOMAIN tierLimits
        THEN [hasReachedLimit |-> FALSE, currentUsage |-> 0,
              limit |-> "unlimited"]
        ELSE IF tierLimits[featureKey] = 0
        THEN [hasReachedLimit |-> FALSE, currentUsage |-> 0,
              limit |-> "unlimited"]
        ELSE [hasReachedLimit |-> currentUsage >= tierLimits[featureKey],
              currentUsage |-> currentUsage,
              limit |-> tierLimits[featureKey]]

\* checkUsageLimit(user, limitType, featureKey)
checkUsageLimit(user, limitType, featureKey) ==
    LET tier == user.subscriptionTier
        tierLimits == limitConfig[tier][limitType]
        dbFieldName == getFieldNameForFeature(limitType, featureKey)
        currentUsage == user.usage[dbFieldName]
    IN  \* !limit || limit < 0 : undefined, 0 and negatives are all unlimited
        IF featureKey \notin DOMAIN tierLimits
        THEN [hasReachedLimit |-> FALSE, currentUsage |-> 0,
              limit |-> "unlimited"]
        ELSE IF tierLimits[featureKey] = 0 \/ tierLimits[featureKey] < 0
        THEN [hasReachedLimit |-> FALSE, currentUsage |-> 0,
              limit |-> "unlimited"]
        ELSE [hasReachedLimit |-> currentUsage >= tierLimits[featureKey],
              currentUsage |-> currentUsage,
              limit |-> tierLimits[featureKey]]

\* { $inc: { 'usage.<field>': 1 } }
IncUsage(doc, fields) ==
    [doc EXCEPT !.usage = [f \in UsageFields |->
        IF f \in fields THEN doc.usage[f] + 1 ELSE doc.usage[f]]]

\* checkAndResetCounters' $set without the monthly block
ResetUpdatesDailyOnly(doc, needsDaily, needsMonthly, at) ==
    [doc EXCEPT !.usage = [f \in UsageFields |->
        IF needsDaily /\ f = "lastSearchReset" THEN at
        ELSE IF needsDaily /\ f \in DailyResetFields THEN 0
        ELSE doc.usage[f]]]

\* checkAndResetCounters' $set without updates['usage.lastSearchReset']
ResetUpdatesKeepingStamp(doc, needsDaily, needsMonthly, at) ==
    \* zeroes the counters but leaves usage.lastSearchReset as it was
    [doc EXCEPT !.usage = [f \in UsageFields |->
        IF needsDaily /\ f \in DailyResetFields THEN 0
        ELSE IF needsMonthly /\ f = "lastUsageReset" THEN at
        ELSE IF needsMonthly /\ f \in MonthlyResetFields THEN 0
        ELSE doc.usage[f]]]

\* checkAndResetCounters writing both blocks whenever either window is due
ResetUpdatesBothWindows(doc, needsDaily, needsMonthly, at) ==
    [doc EXCEPT !.usage = [f \in UsageFields |->
        IF f \in {"lastSearchReset", "lastUsageReset"} THEN at
        ELSE IF f \in DailyResetFields \cup MonthlyResetFields THEN 0
        ELSE doc.usage[f]]]

\* the `updates` object of checkAndResetCounters, applied as one $set
ResetUpdates(doc, needsDaily, needsMonthly, at) ==
    [doc EXCEPT !.usage = [f \in UsageFields |->
        IF needsDaily /\ f = "lastSearchReset" THEN at
        ELSE IF needsDaily /\ f \in DailyResetFields THEN 0
        ELSE IF needsMonthly /\ f = "lastUsageReset" THEN at
        ELSE IF needsMonthly /\ f \in MonthlyResetFields THEN 0
        ELSE doc.usage[f]]]

\* an update applied to every document of the collection
updateManyUnfiltered(users, userId, doc) == [v \in DOMAIN users |-> doc]

\* User.findByIdAndUpdate(userId, update): the document with that _id
\* becomes doc, every other document of the collection stays
findByIdAndUpdate(users, userId, doc) == [users EXCEPT ![userId] = doc]

\* ------------------------------------------------------------- routes
RC == [mw |-> "resetCounters", limitType |-> "none", featureKey |-> "none"]
DL(k) == [mw |-> "dailyLimit", limitType |-> "daily", featureKey |-> k]
ML(k) == [mw |-> "monthlyLimit", limitType |-> "monthly", featureKey |-> k]

SL(k) == [mw |-> "storageLimit", limitType |-> "permanent", featureKey |-> k]

\* the routes that create an entity behind storageLimit, and the routes
\* that delete one
StorageRoutes == {"ideas_save", "calendar_schedule", "insights_create"}
DeleteRoutes == {"ideas_delete", "calendar_delete", "insights_delete"}

\* the collection a storage or delete route writes
StorageKey(route) ==
    CASE route \in {"ideas_save", "ideas_delete"} -> "savedIdeas"
      [] route \in {"calendar_schedule", "calendar_delete"} -> "calendarItems"
      [] route \in {"insights_create", "insights_delete"} -> "insightsTotal"
      [] OTHER -> "none"

Routes == {"trends_query", "seo_analyze", "content_ideation",
           "content_trend_ideation", "scripts_generate", "scripts_transform"}

\* the middleware of each route after `protect`
Chain(route) ==
    CASE route = "trends_query" -> <<RC, DL("searchQueries")>>
      [] route = "seo_analyze" -> <<RC, DL("seoAnalyses")>>
      [] route = "content_ideation" -> <<RC, ML("contentIdeations")>>
      [] route = "content_trend_ideation" -> <<RC, DL("trendIdeations")>>
      [] route = "scripts_generate" ->
            <<RC, DL("scriptGeneration"), ML("scriptGeneration")>>
      [] route = "scripts_transform" -> <<RC, ML("scriptTransformations")>>
      [] route = "ideas_save" -> <<RC, SL("savedIdeas")>>
      [] route = "calendar_schedule" -> <<RC, SL("calendarItems")>>
      [] route = "insights_create" ->
            <<RC, DL("insightsSaved"), SL("insightsTotal")>>
      [] route \in DeleteRoutes -> <<RC>>

\* The handlers' own free-tier checks and usage writes
\* (queryTrends' optional saveAsInsight branch, trendsController.js:119-140,
\* writes insight counters no guard of these routes reads; it is left out.)
FREE_USER_DAILY_SEO_LIMIT == 5
FREE_USER_DAILY_TREND_IDEATION_LIMIT == 3

HandlerChecks(route) == route \in {"seo_analyze", "content_trend_ideation"}
HandlerField(route) ==
    CASE route = "seo_analyze" -> "dailySeoAnalyses"
      [] route = "content_trend_ideation" -> "dailyTrendIdeations"
      [] route = "content_ideation" -> "ideationsThisMonth"
      [] route = "insights_create" -> "insightsSavedThisMonth"
      [] OTHER -> "none"
HandlerLimit(route) ==
    IF route = "seo_analyze" THEN FREE_USER_DAILY_SEO_LIMIT
    ELSE FREE_USER_DAILY_TREND_IDEATION_LIMIT
HandlerResetFields(route) ==
    IF route = "seo_analyze"
    THEN {"dailySearchCount", "dailyTrendIdeations", "dailySeoAnalyses"}
    ELSE {"dailyTrendIdeations"}
\* does the handler $inc its field after a successful call, for this tier
HandlerIncrements(route, tier) ==
    \/ route \in {"content_ideation", "insights_create"}
    \/ route \in {"seo_analyze", "content_trend_ideation"} /\ tier = "free"

\* the status of the handler's success answer, and of its answer to a
\* request it turns away before any write (bad body, entity not found)
HandlerStatus(route) == IF route \in StorageRoutes THEN 201 ELSE 200
InvalidStatus(route) == IF route \in DeleteRoutes THEN 404 ELSE 400

HandlerReset(doc, route, at) ==
    [doc EXCEPT !.usage = [f \in UsageFields |->
        IF f = "lastSearchReset" THEN at
        ELSE IF f \in HandlerResetFields(route) THEN 0
        ELSE doc.usage[f]]]

\* ------------------------------------------------------------- state
VARIABLES
    now,    \* the wall clock, what `new Date()` returns
    db,     \* the users collection: db[u] is the persisted document of u
    req,    \* req[r]: the request in slot r and the position of its pipeline
    mounted, \* the route that receives traffic in this run
    hist,   \* history of the first window after account creation
    entities \* entities[u][k]: the number of documents of collection k
             \* whose userId is u

vars == <<now, db, req, mounted, hist, entities>>

\* A request slot.  pc is the await the pipeline is suspended at:
\*   crc_find, crc_update, crc_refetch   inside checkAndResetCounters
\*   increment                           inside incrementUsageCounter
\*   h_find, h_reset, h_call, h_inc      inside the route's handler
\* stage indexes Chain(route); Len+1 is the handler.  userTier is
\* req.user.subscriptionTier, the one attribute of req.user the pipeline
\* reads after the synchronous limit check.  respCurrent, respLimit,
\* respResetTime and respUpgradeTier are the `current`, `limit`, `resetTime`
\* and `upgradeTier` properties of the JSON body sent; 0, "none" and FALSE
\* stand for a body without the property.
\* checked, reached, tierAtCheck, didDaily, didMonthly, steady, noop and
\* redo are history fields: they record what the pipeline did and steer
\* nothing.  steady: nothing but counter increments has happened since this
\* pipeline's latest checkAndResetCounters call began (no clock change, no
\* reset write of another pipeline, no throw); noop / redo: the latest call
\* began steady and found no reset / a reset due.
IdleReq ==
    [pc |-> "idle", route |-> "none", userId |-> "u1", stage |-> 0,
     userTier |-> "none", needsDaily |-> FALSE, needsMonthly |-> FALSE,
     at |-> NoDate, status |-> 0, sentBy |-> "none",
     respCurrent |-> 0, respLimit |-> 0, respResetTime |-> "none",
     respUpgradeTier |-> FALSE, handlerRan |-> FALSE,
     checked |-> FALSE, reached |-> FALSE, tierAtCheck |-> "none",
     didDaily |-> FALSE, didMonthly |-> FALSE,
     steady |-> FALSE, noop |-> FALSE, redo |-> FALSE]

InFlight(q) == q.pc \notin {"idle", "done"}

FirstDate == [year |-> 2025, month |-> 0, date |-> 1, minute |-> 1]

Init ==
    /\ now = FirstDate
    /\ db = [u \in UserIds |-> NewUser(FirstDate)]
    /\ req = [r \in Reqs |-> IdleReq]
    /\ mounted \in {{route} : route \in Routes}
    /\ hist = [fresh |-> TRUE, ok |-> 0]
    /\ entities = [u \in UserIds |-> [k \in Collections |-> 0]]

\* res.status(code).json(...): the pipeline ends, nothing of it stays live
Responded(q, code, by, cur, lim) ==
    [q EXCEPT !.pc = "done", !.status = code, !.sentBy = by,
              !.respCurrent = cur, !.respLimit = lim,
              !.respResetTime = "none", !.respUpgradeTier = FALSE,
              !.userTier = "none", !.at = NoDate,
              !.needsDaily = FALSE, !.needsMonthly = FALSE]

\* The handler up to its first await.  valid: the body passes the handler's
\* input validation (400 otherwise).
HandlerStart(q, valid) ==
    LET h == [q EXCEPT !.handlerRan = TRUE, !.checked = FALSE]
    IN  IF ~valid THEN Responded(h, InvalidStatus(q.route), "handler", 0, 0)
        ELSE IF q.route \in StorageRoutes THEN [h EXCEPT !.pc = "h_create"]
        ELSE IF q.route \in DeleteRoutes THEN [h EXCEPT !.pc = "h_delete"]
        ELSE IF HandlerChecks(q.route) /\ q.userTier = "free"
        THEN [h EXCEPT !.pc = "h_find"]
        ELSE [h EXCEPT !.pc = "h_call"]

\* next(): the following middleware of the route, or the handler.  Every
\* limit middleware begins by awaiting checkAndResetCounters.
CallNext(q, valid) ==
    IF q.stage < Len(Chain(q.route))
    THEN [q EXCEPT !.stage = q.stage + 1, !.pc = "crc_find",
                   !.checked = FALSE]
    ELSE HandlerStart([q EXCEPT !.stage = q.stage + 1], valid)

\* enforceUsageLimit's 429 body
LimitReached(c, limitType, limitCheck) ==
    LET resetInfo == IF limitType = "daily" THEN "tomorrow" ELSE "next month"
    IN  [Responded(c, 429, "guard", limitCheck.currentUsage,
                   limitCheck.limit)
           EXCEPT !.respResetTime = resetInfo, !.respUpgradeTier = TRUE]

\* enforceUsageLimit checking against req.user, loaded by protect, instead
\* of the user checkAndResetCounters returned
EnforceDecisionOnRequestUser(q, user, m) ==
    LET stale == [user EXCEPT !.subscriptionTier = q.userTier]
        limitCheck == checkUsageLimit(stale, m.limitType, m.featureKey)
        c == [q EXCEPT !.checked = TRUE,
                       !.tierAtCheck = user.subscriptionTier,
                       !.reached = limitCheck.hasReachedLimit]
    IN  IF limitCheck.hasReachedLimit
        THEN LimitReached(c, m.limitType, limitCheck)
        ELSE [c EXCEPT !.pc = "increment",
                       !.userTier = user.subscriptionTier]

\* enforceUsageLimit returning `user` without incrementUsageCounter
EnforceDecisionWithoutCharge(q, user, m) ==
    LET limitCheck == checkUsageLimit(user, m.limitType, m.featureKey)
        c == [q EXCEPT !.checked = TRUE,
                       !.tierAtCheck = user.subscriptionTier,
                       !.reached = limitCheck.hasReachedLimit]
    IN  IF limitCheck.hasReachedLimit
        THEN LimitReached(c, m.limitType, limitCheck)
        ELSE CallNext([c EXCEPT !.userTier = user.subscriptionTier], TRUE)

\* enforceUsageLimit with a limit check that sends 429 and carries on
EnforceDecisionFallingThrough(q, user, m) ==
    \* the 429 branch without its `return null`
    LET limitCheck == checkUsageLimit(user, m.limitType, m.featureKey)
        c == [q EXCEPT !.checked = TRUE,
                       !.tierAtCheck = user.subscriptionTier,
                       !.reached = limitCheck.hasReachedLimit]
    IN  [c EXCEPT !.pc = "increment", !.userTier = user.subscriptionTier]

\* enforceUsageLimit after checkAndResetCounters returned `user`
EnforceDecision(q, user, m) ==
    LET limitCheck == checkUsageLimit(user, m.limitType, m.featureKey)
        c == [q EXCEPT !.checked = TRUE,
                       !.tierAtCheck = user.subscriptionTier,
                       !.reached = limitCheck.hasReachedLimit]
    IN  IF limitCheck.hasReachedLimit
        THEN LimitReached(c, m.limitType, limitCheck)
        ELSE [c EXCEPT !.pc = "increment",
                       !.userTier = user.subscriptionTier]

\* storageLimit after checkAndResetCounters returned `user`: paid tiers
\* skip the check, the free tier goes on to countDocuments
StorageTierCheck(q, user, valid) ==
    LET c == [q EXCEPT !.tierAtCheck = user.subscriptionTier]
    IN  IF user.subscriptionTier # "free" THEN CallNext(c, valid)
        ELSE [c EXCEPT !.pc = "sl_count"]

\* checkAndResetCounters returned `user` to the middleware at q.stage
CrcReturn(q, user, valid) ==
    LET m == Chain(q.route)[q.stage]
    IN  IF m.mw = "resetCounters" THEN CallNext(q, valid)
        ELSE IF m.mw = "storageLimit" THEN StorageTierCheck(q, user, valid)
        ELSE EnforceDecision(q, user, m)

\* checkAndResetCounters threw: resetCounters and storageLimit continue,
\* enforceUsageLimit answers 500
CrcThrow(q, valid) ==
    LET m == Chain(q.route)[q.stage]
        t == [q EXCEPT !.steady = FALSE, !.noop = FALSE]
    IN  IF m.mw \in {"resetCounters", "storageLimit"} THEN CallNext(t, valid)
        ELSE Responded(t, 500, "guard", 0, 0)

\* a reset write by request r disturbs every other pipeline in flight
Disturb(r) ==
    [x \in Reqs |-> IF x = r THEN req[x]
                     ELSE [req[x] EXCEPT !.steady = FALSE]]

\* hist.fresh: since the account was created the clock has not moved, the
\* tier has not changed and every response was a 200 or a 429; hist.ok: the
\* number of 200 responses so far, counted while fresh.
Stale == [hist EXCEPT !.fresh = FALSE, !.ok = 0]

Log(r) ==
    hist' = IF ~hist.fresh \/ req'[r].pc # "done" THEN hist
            ELSE IF req'[r].status = 200 THEN [hist EXCEPT !.ok = hist.ok + 1]
            ELSE IF req'[r].status = 429 THEN hist
            ELSE Stale

\* ------------------------------------------------------------ actions
\* protect has loaded req.user; the pipeline enters resetCounters
NewRequestStep(r, route) ==
    /\ ~InFlight(req[r])
    /\ route \in mounted
    /\ req' = [req EXCEPT ![r] =
                 [IdleReq EXCEPT !.pc = "crc_find", !.route = route,
                                 !.stage = 1,
                                 !.userTier = db["u1"].subscriptionTier]]
    /\ UNCHANGED <<now, db, mounted, entities>>

NewRequest(r, route) == NewRequestStep(r, route) /\ Log(r)

\* User.findById resolves; the reset decision is taken on the loaded
\* document with the clock of this moment
CrcFind(r) ==
    /\ req[r].pc = "crc_find"
    /\ LET q == req[r]
           user == db[q.userId]
           needsDailyReset == isBeforeToday(user.usage["lastSearchReset"], now)
           needsMonthlyReset ==
               isAfterRenewalDate(user.usage["lastUsageReset"], renewalDay, now)
       IN  IF needsDailyReset \/ needsMonthlyReset
           THEN req' = [req EXCEPT ![r] =
                          [q EXCEPT !.pc = "crc_update",
                                    !.needsDaily = needsDailyReset,
                                    !.needsMonthly = needsMonthlyReset,
                                    !.at = now, !.noop = FALSE,
                                    !.redo = q.steady, !.steady = TRUE]]
           ELSE \E valid \in BOOLEAN :
                  req' = [req EXCEPT ![r] =
                            CrcReturn([q EXCEPT !.noop = q.steady,
                                                !.redo = FALSE,
                                                !.steady = TRUE],
                                      user, valid)]
    /\ Log(r)
    /\ UNCHANGED <<now, db, mounted, entities>>

\* User.findByIdAndUpdate(userId, updates)
CrcUpdate(r) ==
    /\ req[r].pc = "crc_update"
    /\ LET q == req[r]
       IN  /\ db' = findByIdAndUpdate(db, q.userId,
                       ResetUpdates(db[q.userId], q.needsDaily,
                                    q.needsMonthly, q.at))
           /\ req' = [Disturb(r) EXCEPT ![r] =
                        [q EXCEPT !.pc = "crc_refetch",
                                  !.didDaily = q.didDaily \/ q.needsDaily,
                                  !.didMonthly =
                                      q.didMonthly \/ q.needsMonthly]]
    /\ Log(r)
    /\ UNCHANGED <<now, mounted, entities>>

\* the re-fetch after the reset
CrcRefetch(r) ==
    /\ req[r].pc = "crc_refetch"
    /\ \E valid \in BOOLEAN :
         req' = [req EXCEPT ![r] =
                   CrcReturn([req[r] EXCEPT !.needsDaily = FALSE,
                                            !.needsMonthly = FALSE,
                                            !.at = NoDate],
                             db[req[r].userId], valid)]
    /\ Log(r)
    /\ UNCHANGED <<now, db, mounted, entities>>

\* any of the three awaits of checkAndResetCounters rejects
CrcFailStep(r) ==
    /\ req[r].pc \in {"crc_find", "crc_update", "crc_refetch"}
    /\ \E valid \in BOOLEAN :
         req' = [req EXCEPT ![r] =
                   CrcThrow([req[r] EXCEPT !.needsDaily = FALSE,
                                           !.needsMonthly = FALSE,
                                           !.at = NoDate], valid)]
    /\ UNCHANGED <<now, db, mounted, entities>>

CrcFail(r) == CrcFailStep(r) /\ Log(r)

\* incrementUsageCounter: one $inc; enforceUsageLimit returns `user`, the
\* middleware stores it in req.user and calls next()
Increment(r) ==
    /\ req[r].pc = "increment"
    /\ LET q == req[r]
           m == Chain(q.route)[q.stage]
           dbFieldName == getFieldNameForFeature(m.limitType, m.featureKey)
       IN  /\ db[q.userId].usage[dbFieldName] < MaxCount
           /\ db' = findByIdAndUpdate(db, q.userId,
                       IncUsage(db[q.userId], {dbFieldName}))
           /\ \E valid \in BOOLEAN :
                req' = [req EXCEPT ![r] = CallNext(q, valid)]
    /\ Log(r)
    /\ UNCHANGED <<now, mounted, entities>>

\* the $inc rejects and the request is passed on to next()
IncrementFailStepOpen(r) ==
    /\ req[r].pc = "increment"
    /\ \E valid \in BOOLEAN : req' = [req EXCEPT ![r] = CallNext(req[r], valid)]
    /\ UNCHANGED <<now, db, mounted, entities>>

\* the $inc rejects: enforceUsageLimit's catch answers 500
IncrementFailStep(r) ==
    /\ req[r].pc = "increment"
    /\ req' = [req EXCEPT ![r] = Responded(req[r], 500, "guard", 0, 0)]
    /\ UNCHANGED <<now, db, mounted, entities>>

IncrementFail(r) == IncrementFailStep(r) /\ Log(r)

\* ------------------------------------------------------- storageLimit
\* collectionModel.countDocuments({ userId }) resolves; the ceiling is the
\* one of the tier checkAndResetCounters returned
SlCountStep(r) ==
    /\ req[r].pc = "sl_count"
    /\ LET q == req[r]
           limitField == Chain(q.route)[q.stage].featureKey
           count == LiveCount(entities[q.userId], db[q.userId], limitField)
           limit == limitConfig[q.tierAtCheck]["permanent"][limitField]
       IN  \E valid \in BOOLEAN :
             req' = [req EXCEPT ![r] =
               IF StorageAllows(count, limit) THEN CallNext(q, valid)
               ELSE [Responded(q, 429, "storage", count, limit)
                       EXCEPT !.respUpgradeTier = TRUE]]
    /\ UNCHANGED <<now, db, mounted, entities>>

SlCount(r) == SlCountStep(r) /\ Log(r)

\* countDocuments rejects: "Don't block the request if limit checking fails"
SlCountFailStep(r) ==
    /\ req[r].pc = "sl_count"
    /\ \E valid \in BOOLEAN : req' = [req EXCEPT ![r] = CallNext(req[r], valid)]
    /\ UNCHANGED <<now, db, mounted, entities>>

SlCountFail(r) == SlCountFailStep(r) /\ Log(r)

\* ----------------------------------------------------------- handlers
\* analyzeContentSeo / generateTrendIdeas, free tier: User.findById, then
\* the handler's own daily reset decision and its own ceiling
HFind(r) ==
    /\ req[r].pc = "h_find"
    /\ LET q == req[r]
           user == db[q.userId]
           count == user.usage[HandlerField(q.route)]
           needsReset == isBeforeToday(user.usage["lastSearchReset"], now)
       IN  req' = [req EXCEPT ![r] =
             IF needsReset
             THEN [q EXCEPT !.pc = "h_reset", !.at = now]
             ELSE IF count >= HandlerLimit(q.route)
             THEN Responded(q, 429, "handler", 0, 0)
             ELSE [q EXCEPT !.pc = "h_call"]]
    /\ Log(r)
    /\ UNCHANGED <<now, db, mounted, entities>>

HFindFail(r) ==
    /\ req[r].pc = "h_find"
    /\ req' = [req EXCEPT ![r] = Responded(req[r], 500, "handler", 0, 0)]
    /\ Log(r)
    /\ UNCHANGED <<now, db, mounted, entities>>

\* the handler's reset write; its local count is 0 afterwards, below the
\* handler's ceiling
HReset(r) ==
    /\ req[r].pc = "h_reset"
    /\ LET q == req[r]
       IN  /\ db' = findByIdAndUpdate(db, q.userId,
                       HandlerReset(db[q.userId], q.route, q.at))
           /\ req' = [Disturb(r) EXCEPT ![r] =
                        [q EXCEPT !.pc = "h_call", !.at = NoDate]]
    /\ Log(r)
    /\ UNCHANGED <<now, mounted, entities>>

\* analyzeContentSeo swallows the rejection (.catch); generateTrendIdeas
\* falls into its catch and answers 500
HResetFail(r) ==
    /\ req[r].pc = "h_reset"
    /\ LET q == [req[r] EXCEPT !.at = NoDate]
       IN  req' = [req EXCEPT ![r] =
             IF q.route = "seo_analyze" THEN [q EXCEPT !.pc = "h_call"]
             ELSE Responded(q, 500, "handler", 0, 0)]
    /\ Log(r)
    /\ UNCHANGED <<now, db, mounted, entities>>

\* the external call (OpenAI, Google search) succeeds and validates
HCall(r) ==
    /\ req[r].pc = "h_call"
    /\ LET q == req[r]
       IN  req' = [req EXCEPT ![r] =
             IF HandlerIncrements(q.route, q.userTier)
             THEN [q EXCEPT !.pc = "h_inc"]
             ELSE Responded(q, 200, "handler", 0, 0)]
    /\ Log(r)
    /\ UNCHANGED <<now, db, mounted, entities>>

HCallFail(r) ==
    /\ req[r].pc = "h_call"
    /\ req' = [req EXCEPT ![r] = Responded(req[r], 500, "handler", 0, 0)]
    /\ Log(r)
    /\ UNCHANGED <<now, db, mounted, entities>>

\* the handler's own $inc after a successful call
HInc(r) ==
    /\ req[r].pc = "h_inc"
    /\ LET q == req[r]
           f == HandlerField(q.route)
       IN  /\ db[q.userId].usage[f] < MaxCount
           /\ db' = findByIdAndUpdate(db, q.userId,
                                       IncUsage(db[q.userId], {f}))
           /\ req' = [req EXCEPT ![r] =
                        Responded(q, HandlerStatus(q.route), "handler", 0, 0)]
    /\ Log(r)
    /\ UNCHANGED <<now, mounted, entities>>

\* "Non-critical": the failure is logged and the answer is still a success
HIncFail(r) ==
    /\ req[r].pc = "h_inc"
    /\ req' = [req EXCEPT ![r] =
                 Responded(req[r], HandlerStatus(req[r].route), "handler",
                           0, 0)]
    /\ Log(r)
    /\ UNCHANGED <<now, db, mounted, entities>>

\* saveIdea / scheduleIdea / createInsight: Model.create adds one document
\* of the user; createInsight goes on to its non-critical $inc
HCreate(r) ==
    /\ req[r].pc = "h_create"
    /\ LET q == req[r]
           k == StorageKey(q.route)
       IN  /\ entities[q.userId][k]
                < limitConfig["free"]["permanent"][k] + Headroom
           /\ entities' = [entities EXCEPT ![q.userId][k] = @ + 1]
           /\ req' = [req EXCEPT ![r] =
                 IF HandlerIncrements(q.route, q.userTier)
                 THEN [q EXCEPT !.pc = "h_inc"]
                 ELSE Responded(q, HandlerStatus(q.route), "handler", 0, 0)]
    /\ Log(r)
    /\ UNCHANGED <<now, db, mounted>>

HCreateFail(r) ==
    /\ req[r].pc = "h_create"
    /\ req' = [req EXCEPT ![r] = Responded(req[r], 500, "handler", 0, 0)]
    /\ Log(r)
    /\ UNCHANGED <<now, db, mounted, entities>>

\* deleteIdea / deleteScheduledIdea / deleteInsight: the document was found
\* and deleteOne removes it
HDelete(r) ==
    /\ req[r].pc = "h_delete"
    /\ LET q == req[r]
           k == StorageKey(q.route)
       IN  /\ entities[q.userId][k]
                > limitConfig["free"]["permanent"][k] - Headroom
           /\ entities' = [entities EXCEPT ![q.userId][k] = @ - 1]
           /\ req' = [req EXCEPT ![r] = Responded(q, 200, "handler", 0, 0)]
    /\ Log(r)
    /\ UNCHANGED <<now, db, mounted>>

HDeleteFail(r) ==
    /\ req[r].pc = "h_delete"
    /\ req' = [req EXCEPT ![r] = Responded(req[r], 500, "handler", 0, 0)]
    /\ Log(r)
    /\ UNCHANGED <<now, db, mounted, entities>>

\* ------------------------------------------------------- environment
\* the instant after d: 00:01 -> 23:59 of the same day -> 00:01 of the next
\* day; the day after LastDate is the 1st of the next month, the month after
\* LastMonth is month 0 of the next year
NextInstant(d) ==
    IF d.minute = 1 THEN [d EXCEPT !.minute = 1439]
    ELSE IF d.date < LastDate
    THEN [d EXCEPT !.date = d.date + 1, !.minute = 1]
    ELSE IF d.month < LastMonth
    THEN [d EXCEPT !.month = d.month + 1, !.date = 1, !.minute = 1]
    ELSE [year |-> d.year + 1, month |-> 0, date |-> 1, minute |-> 1]

\* the number of clock readings between FirstDate and d
Ticks(d) ==
    (((d.year - FirstDate.year) * (LastMonth + 1) + d.month) * LastDate
        + (d.date - 1)) * 2 + (IF d.minute = 1 THEN 0 ELSE 1)

\* time passes
AdvanceClock ==
    /\ Ticks(now) < MaxTicks
    /\ now' = NextInstant(now)
    /\ req' = [x \in Reqs |-> [req[x] EXCEPT !.steady = FALSE]]
    /\ hist' = Stale
    /\ UNCHANGED <<db, mounted, entities>>

\* updateUser (admin) sets subscriptionTier; usage is not in its allow-list
UpdateUser(u, tier) ==
    /\ db[u].subscriptionTier # tier
    /\ db' = [db EXCEPT ![u].subscriptionTier = tier]
    /\ hist' = Stale
    /\ UNCHANGED <<now, req, mounted, entities>>

\* --------------------------------------------------- specifications
Quiet == \A x \in Reqs : ~InFlight(req[x])

\* a request is admitted only when no pipeline is in flight
NewRequestSeq(route) ==
    /\ Quiet
    /\ \A x \in Reqs : x # 1 => req[x].pc = "idle"
    /\ NewRequest(1, route)

\* Spec: one request at a time; any await may reject; the clock moves and
\* the tier changes at any moment, also in the middle of a pipeline
Next ==
    \/ \E route \in Routes : NewRequestSeq(route)
    \/ \E r \in Reqs : CrcFind(r)
    \/ \E r \in Reqs : CrcUpdate(r)
    \/ \E r \in Reqs : CrcRefetch(r)
    \/ \E r \in Reqs : CrcFail(r)
    \/ \E r \in Reqs : Increment(r)
    \/ \E r \in Reqs : IncrementFail(r)
    \/ \E r \in Reqs : HFind(r)
    \/ \E r \in Reqs : HFindFail(r)
    \/ \E r \in Reqs : HReset(r)
    \/ \E r \in Reqs : HResetFail(r)
    \/ \E r \in Reqs : HCall(r)
    \/ \E r \in Reqs : HCallFail(r)
    \/ \E r \in Reqs : HInc(r)
    \/ \E r \in Reqs : HIncFail(r)
    \/ AdvanceClock
    \/ \E u \in UserIds, tier \in Tiers : UpdateUser(u, tier)

Spec == Init /\ [][Next]_vars

\* SpecSeq: one request at a time, nothing fails, and the clock moves and
\* the tier changes only between requests.  The handlers' own daily reset
\* (HReset) cannot be due here: resetCounters ran at the same instant.
AdvanceClockSeq == Quiet /\ AdvanceClock

UpdateUserSeq(u, tier) == Quiet /\ UpdateUser(u, tier)

NextSeq ==
    \/ \E route \in Routes : NewRequestSeq(route)
    \/ \E r \in Reqs : CrcFind(r)
    \/ \E r \in Reqs : CrcUpdate(r)
    \/ \E r \in Reqs : CrcRefetch(r)
    \/ \E r \in Reqs : Increment(r)
    \/ \E r \in Reqs : HFind(r)
    \/ \E r \in Reqs : HCall(r)
    \/ \E r \in Reqs : HInc(r)
    \/ AdvanceClockSeq
    \/ \E u \in UserIds, tier \in Tiers : UpdateUserSeq(u, tier)

SpecSeq == Init /\ [][NextSeq]_vars

\* SpecRace: NumReqs concurrent pipelines of POST /trends/query for one
\* free-tier user within one day; nothing fails
InitRace == Init /\ mounted = {"trends_query"}

NextRace ==
    \/ \E r \in Reqs : NewRequest(r, "trends_query")
    \/ \E r \in Reqs : CrcFind(r)
    \/ \E r \in Reqs : Increment(r)
    \/ \E r \in Reqs : HCall(r)

SpecRace == InitRace /\ [][NextRace]_vars

\* SpecStore: the create and the delete route of one entity collection for a
\* user who starts Headroom documents below the free ceiling; one request
\* at a time; any await may reject; the clock starts on the evening of the
\* day the account was created and moves, up to reading StoreTicks, at any
\* moment; the tier changes between requests.  hist.last: "refused" after
\* storageLimit answered 429, "readmitted" once it has let the next create
\* request of the user through, "none" otherwise.
StoragePairs == {{"ideas_save", "ideas_delete"},
                 {"calendar_schedule", "calendar_delete"},
                 {"insights_create", "insights_delete"}}

InitStore ==
    /\ now = NextInstant(FirstDate)
    /\ db = [u \in UserIds |-> NewUser(FirstDate)]
    /\ req = [r \in Reqs |-> IdleReq]
    /\ mounted \in StoragePairs
    /\ hist = [fresh |-> FALSE, ok |-> 0, last |-> "none"]
    /\ entities = [u \in UserIds |-> [k \in Collections |->
           IF \E route \in mounted : StorageKey(route) = k
           THEN limitConfig["free"]["permanent"][k] - Headroom ELSE 0]]

SlCountNoted(r) ==
    /\ SlCountStep(r)
    /\ hist' = [hist EXCEPT !.last =
                  IF req'[r].status = 429 THEN "refused"
                  ELSE IF hist.last = "refused" THEN "readmitted"
                  ELSE "none"]

AdvanceClockStore == Ticks(now) < StoreTicks /\ AdvanceClock

NextStore ==
    \/ \E route \in StorageRoutes \cup DeleteRoutes : NewRequestSeq(route)
    \/ \E r \in Reqs : CrcFind(r)
    \/ \E r \in Reqs : CrcUpdate(r)
    \/ \E r \in Reqs : CrcRefetch(r)
    \/ \E r \in Reqs : CrcFail(r)
    \/ \E r \in Reqs : Increment(r)
    \/ \E r \in Reqs : IncrementFail(r)
    \/ \E r \in Reqs : SlCountNoted(r)
    \/ \E r \in Reqs : SlCountFail(r)
    \/ \E r \in Reqs : HCreate(r)
    \/ \E r \in Reqs : HCreateFail(r)
    \/ \E r \in Reqs : HDelete(r)
    \/ \E r \in Reqs : HDeleteFail(r)
    \/ \E r \in Reqs : HInc(r)
    \/ \E r \in Reqs : HIncFail(r)
    \/ AdvanceClockStore
    \/ \E u \in UserIds, tier \in Tiers : UpdateUserSeq(u, tier)

SpecStore == InitStore /\ [][NextStore]_vars

\* SpecFail: POST /insights (resetCounters, dailyLimit, storageLimit) or
\* POST /scripts/generate (resetCounters, dailyLimit, monthlyLimit) within
\* one instant; any await of a middleware may reject.  hist.passed /
\* hist.stopped: the middleware in which a rejected await let the request
\* continue / ended it.
InitFail ==
    /\ now = FirstDate
    /\ db = [u \in UserIds |-> NewUser(FirstDate)]
    /\ req = [r \in Reqs |-> IdleReq]
    /\ mounted \in {{"insights_create"}, {"scripts_generate"}}
    /\ hist = [fresh |-> FALSE, ok |-> 0, passed |-> {}, stopped |-> {}]
    /\ entities = [u \in UserIds |-> [k \in Collections |->
           IF \E route \in mounted : StorageKey(route) = k
           THEN limitConfig["free"]["permanent"][k] - Headroom ELSE 0]]

\* a rejected await of request r, with the policy its middleware applied
Seen(r) ==
    LET mw == Chain(req[r].route)[req[r].stage].mw
    IN  hist' = IF req'[r].pc = "done" /\ req'[r].sentBy = "guard"
                THEN [hist EXCEPT !.stopped = @ \cup {mw}]
                ELSE [hist EXCEPT !.passed = @ \cup {mw}]

CrcFailSeen(r) == CrcFailStep(r) /\ Seen(r)
IncrementFailSeen(r) == IncrementFailStep(r) /\ Seen(r)
SlCountFailSeen(r) == SlCountFailStep(r) /\ Seen(r)

NextFail ==
    \/ \E route \in {"insights_create", "scripts_generate"} :
          NewRequestSeq(route)
    \/ \E r \in Reqs : CrcFind(r)
    \/ \E r \in Reqs : CrcFailSeen(r)
    \/ \E r \in Reqs : Increment(r)
    \/ \E r \in Reqs : IncrementFailSeen(r)
    \/ \E r \in Reqs : SlCount(r)
    \/ \E r \in Reqs : SlCountFailSeen(r)
    \/ \E r \in Reqs : HCreate(r)
    \/ \E r \in Reqs : HCall(r)
    \/ \E r \in Reqs : HInc(r)

SpecFail == InitFail /\ [][NextFail]_vars

\* SpecCharge: one request at a time on one of the limit routes; any await
\* may reject; all within one day, so no window reset is due; the tier
\* changes between requests.
\* hist.pre: the usage sub-document as it was when the request in flight
\* was admitted.
InitCharge ==
    /\ now = FirstDate
    /\ db = [u \in UserIds |-> NewUser(FirstDate)]
    /\ req = [r \in Reqs |-> IdleReq]
    /\ mounted \in {{route} : route \in Routes}
    /\ hist = [fresh |-> FALSE, ok |-> 0, pre |-> NewUsage(FirstDate)]
    /\ entities = [u \in UserIds |-> [k \in Collections |-> 0]]

NewRequestNoted(route) ==
    /\ Quiet
    /\ \A x \in Reqs : x # 1 => req[x].pc = "idle"
    /\ NewRequestStep(1, route)
    /\ hist' = [hist EXCEPT !.pre = db["u1"].usage]

NextCharge ==
    \/ \E route \in Routes : NewRequestNoted(route)
    \/ \E r \in Reqs : CrcFind(r)
    \/ \E r \in Reqs : CrcFail(r)
    \/ \E r \in Reqs : Increment(r)
    \/ \E r \in Reqs : IncrementFail(r)
    \/ \E r \in Reqs : HFind(r)
    \/ \E r \in Reqs : HFindFail(r)
    \/ \E r \in Reqs : HCall(r)
    \/ \E r \in Reqs : HCallFail(r)
    \/ \E r \in Reqs : HInc(r)
    \/ \E r \in Reqs : HIncFail(r)
    \/ \E u \in UserIds, tier \in Tiers : UpdateUserSeq(u, tier)

SpecCharge == InitCharge /\ [][NextCharge]_vars

\* SpecUsers: two users, each with a pipeline of the same route, any
\* interleaving; the clock starts on the evening of the day both accounts
\* were created and moves up to reading StoreTicks, so a day rolls over in
\* the middle of the pipelines; nothing fails.
Principals == {"u1", "u2"}
UserSlots == {1, 2}
UserOf(r) == IF r = 1 THEN "u1" ELSE "u2"

InitUsers ==
    /\ now = NextInstant(FirstDate)
    /\ db = [u \in Principals |-> NewUser(FirstDate)]
    /\ req = [r \in Reqs |-> [IdleReq EXCEPT !.userId = UserOf(r)]]
    /\ mounted \in {{route} : route \in Routes}
    /\ hist = [fresh |-> FALSE, ok |-> 0]
    /\ entities = [u \in Principals |-> [k \in Collections |-> 0]]

\* protect has loaded the user of slot r
NewRequestFor(r, route) ==
    /\ ~InFlight(req[r])
    /\ route \in mounted
    /\ req' = [req EXCEPT ![r] =
                 [IdleReq EXCEPT !.pc = "crc_find", !.route = route,
                                 !.stage = 1, !.userId = UserOf(r),
                                 !.userTier = db[UserOf(r)].subscriptionTier]]
    /\ UNCHANGED <<now, db, mounted, entities, hist>>

NextUsers ==
    \/ \E r \in UserSlots, route \in Routes : NewRequestFor(r, route)
    \/ \E r \in UserSlots : CrcFind(r)
    \/ \E r \in UserSlots : CrcUpdate(r)
    \/ \E r \in UserSlots : CrcRefetch(r)
    \/ \E r \in UserSlots : Increment(r)
    \/ \E r \in UserSlots : HFind(r)
    \/ \E r \in UserSlots : HReset(r)
    \/ \E r \in UserSlots : HCall(r)
    \/ \E r \in UserSlots : HInc(r)
    \/ AdvanceClockStore

SpecUsers == InitUsers /\ [][NextUsers]_vars

\* SpecRollover: the day after the account was created, before anything
\* has reset the daily window: NumReqs concurrent pipelines of POST
\* /trends/query for the one user, one request per slot; nothing fails.
InitRollover ==
    /\ now = NextInstant(NextInstant(FirstDate))
    /\ db = [u \in UserIds |-> NewUser(FirstDate)]
    /\ req = [r \in Reqs |-> IdleReq]
    /\ mounted = {"trends_query"}
    /\ hist = [fresh |-> FALSE, ok |-> 0]
    /\ entities = [u \in UserIds |-> [k \in Collections |-> 0]]

NewRequestOnce(r, route) == req[r].pc = "idle" /\ NewRequest(r, route)

NextRollover ==
    \/ \E r \in Reqs : NewRequestOnce(r, "trends_query")
    \/ \E r \in Reqs : CrcFind(r)
    \/ \E r \in Reqs : CrcUpdate(r)
    \/ \E r \in Reqs : CrcRefetch(r)
    \/ \E r \in Reqs : Increment(r)
    \/ \E r \in Reqs : HCall(r)

SpecRollover == InitRollover /\ [][NextRollover]_vars

\* SpecStoreRace: NumReqs concurrent pipelines of one create route for a
\* free-tier user who starts Headroom documents below the ceiling, within
\* one day; nothing fails.
InitStoreRace ==
    /\ now = FirstDate
    /\ db = [u \in UserIds |-> NewUser(FirstDate)]
    /\ req = [r \in Reqs |-> IdleReq]
    /\ mounted \in {{route} : route \in StorageRoutes}
    /\ hist = [fresh |-> FALSE, ok |-> 0]
    /\ entities = [u \in UserIds |-> [k \in Collections |->
           IF \E route \in mounted : StorageKey(route) = k
           THEN limitConfig["free"]["permanent"][k] - Headroom ELSE 0]]

NextStoreRace ==
    \/ \E r \in Reqs, route \in StorageRoutes : NewRequest(r, route)
    \/ \E r \in Reqs : CrcFind(r)
    \/ \E r \in Reqs : Increment(r)
    \/ \E r \in Reqs : SlCount(r)
    \/ \E r \in Reqs : HCreate(r)
    \/ \E r \in Reqs : HInc(r)

SpecStoreRace == InitStoreRace /\ [][NextStoreRace]_vars

\* SpecTwoGuards: the routes with two limit guards in sequence, POST
\* /insights (dailyLimit, storageLimit) and POST /scripts/generate
\* (dailyLimit, monthlyLimit), one request at a time within one day; nothing
\* fails.  hist.pre as in SpecCharge.
TwoGuardRoutes == {"insights_create", "scripts_generate"}

InitTwoGuards ==
    /\ now = FirstDate
    /\ db = [u \in UserIds |-> NewUser(FirstDate)]
    /\ req = [r \in Reqs |-> IdleReq]
    /\ mounted \in {{route} : route \in TwoGuardRoutes}
    /\ hist = [fresh |-> FALSE, ok |-> 0, pre |-> NewUsage(FirstDate)]
    /\ entities = [u \in UserIds |-> [k \in Collections |->
           IF \E route \in mounted : StorageKey(route) = k
           THEN limitConfig["free"]["permanent"][k] - Headroom ELSE 0]]

NextTwoGuards ==
    \/ \E route \in TwoGuardRoutes : NewRequestNoted(route)
    \/ \E r \in Reqs : CrcFind(r)
    \/ \E r \in Reqs : Increment(r)
    \/ \E r \in Reqs : SlCount(r)
    \/ \E r \in Reqs : HCreate(r)
    \/ \E r \in Reqs : HCall(r)
    \/ \E r \in Reqs : HInc(r)

SpecTwoGuards == InitTwoGuards /\ [][NextTwoGuards]_vars

\* ------------------------------------------------------------ properties
U == "u1"

\* the limit middleware a pipeline is in, if any
AtGuard(q) ==
    /\ q.stage >= 1 /\ q.stage <= Len(Chain(q.route))
    /\ Chain(q.route)[q.stage].mw \in {"dailyLimit", "monthlyLimit"}
GuardOf(q) == Chain(q.route)[q.stage]
GuardField(q) ==
    getFieldNameForFeature(GuardOf(q).limitType, GuardOf(q).featureKey)

\* the configured ceiling of (tier, window, feature key), where one exists
Configured(tier, limitType, featureKey) ==
    tier \in Tiers /\ HasLimit(tier, limitType, featureKey)
Ceiling(tier, limitType, featureKey) == limitConfig[tier][limitType][featureKey]
Finite(tier, limitType, featureKey) ==
    /\ Configured(tier, limitType, featureKey)
    /\ Ceiling(tier, limitType, featureKey) >= 0

LimitTypes == {"daily", "monthly"}
FeatureKeys(limitType) ==
    UNION {DOMAIN limitConfig[t][limitType] : t \in Tiers}

\* C1: under every interleaving of concurrent enforceUsageLimit requests of
\* one user for one feature (tier fixed, no window rollover), the persisted
\* counter of a feature with a finite ceiling never exceeds that ceiling.
C1_NeverPastCeiling ==
    \A lt \in LimitTypes : \A k \in FeatureKeys(lt) :
        Finite(db[U].subscriptionTier, lt, k) =>
            db[U].usage[getFieldNameForFeature(lt, k)]
                <= Ceiling(db[U].subscriptionTier, lt, k)

\* C2: in a sequence of non-overlapping enforceUsageLimit calls, every
\* Allowed result raises the persisted counter of its feature by exactly one
\* and leaves it at or below the configured ceiling.
C2_AllowedCountsOneWithinCeiling ==
    [][\A r \in Reqs :
         (req[r].pc = "increment" /\ req'[r].pc # "increment"
            /\ Finite(req[r].tierAtCheck, GuardOf(req[r]).limitType,
                      GuardOf(req[r]).featureKey))
         => /\ db'[U].usage[GuardField(req[r])]
                 = db[U].usage[GuardField(req[r])] + 1
            /\ db'[U].usage[GuardField(req[r])]
                 <= Ceiling(req[r].tierAtCheck, GuardOf(req[r]).limitType,
                            GuardOf(req[r]).featureKey)]_vars

\* C3: sequentially, enforceUsageLimit allows a request iff the persisted
\* counter is strictly below the finite ceiling, and a rejection reports the
\* persisted counter as current and the ceiling as limit.
C3_AllowedIffBelowCeiling ==
    \A r \in Reqs :
        (AtGuard(req[r]) /\ req[r].checked
           /\ Finite(req[r].tierAtCheck, GuardOf(req[r]).limitType,
                     GuardOf(req[r]).featureKey))
        => LET c == Ceiling(req[r].tierAtCheck, GuardOf(req[r]).limitType,
                            GuardOf(req[r]).featureKey)
               v == db[U].usage[GuardField(req[r])]
           IN  /\ req[r].pc = "increment" => v < c
               /\ (req[r].pc = "done" /\ req[r].status = 429)
                    => (v >= c /\ req[r].respCurrent = v
                               /\ req[r].respLimit = c)

\* C4: when enforceUsageLimit finds current >= ceiling the pipeline ends with
\* a 429, next() is never called, the handler never runs, and the rejecting
\* step writes nothing to the user's document.
C4_RejectedStopsAndWritesNothing ==
    [][\A r \in Reqs :
         req'[r].reached =>
            /\ req'[r].pc = "done"
            /\ req'[r].status = 429
            /\ req'[r].sentBy = "guard"
            /\ ~req'[r].handlerRan
            /\ (~req[r].reached => db' = db)]_vars

\* a request was rejected by a limit guard after this same request had
\* performed a window reset
C4_Witness ==
    \E r \in Reqs : req[r].reached /\ req[r].status = 429
                    /\ (req[r].didDaily \/ req[r].didMonthly)

\* the guarded routes C5 names, with the ceiling of their free-tier guard
C5Routes == {"seo_analyze", "trends_query", "content_trend_ideation",
             "content_ideation"}
RouteGuard(route) == Chain(route)[2]
RouteCeiling(route) ==
    Ceiling("free", RouteGuard(route).limitType, RouteGuard(route).featureKey)

\* C5: with no failures and no concurrency, a free-tier user starting a
\* fresh window at counter 0 completes exactly `ceiling` successful requests
\* of a guarded route: no request is rejected before `ceiling` requests have
\* succeeded, and never more than `ceiling` succeed.
C5_ExactlyCeilingRequestsServed ==
    \A route \in C5Routes :
        (hist.fresh /\ mounted = {route}) =>
            /\ hist.ok <= RouteCeiling(route)
            /\ \A r \in Reqs :
                 (req[r].pc = "done" /\ req[r].status = 429)
                    => hist.ok = RouteCeiling(route)

\* C6: the write of a daily reset zeroes the counter field behind every
\* feature key that has a daily ceiling in the tier table.
C6_DailyResetZeroesEveryDailyKey ==
    \A r \in Reqs :
        (req[r].pc = "crc_refetch" /\ req[r].needsDaily) =>
            \A k \in FeatureKeys("daily") :
                db[U].usage[getFieldNameForFeature("daily", k)] = 0

\* C7: the first request of a day performs the daily reset before its
\* ceiling is evaluated, so for no daily-limited feature key is the request
\* that performed the daily reset rejected by its daily guard.
C7_FirstCallOfDayAllowed ==
    \A r \in Reqs :
        (req[r].didDaily /\ AtGuard(req[r])
           /\ GuardOf(req[r]).limitType = "daily")
        => ~(req[r].pc = "done" /\ req[r].status = 429)

\* C8: a feature whose configured ceiling is 0 is rejected on every
\* enforceUsageLimit call and its counter is never incremented.
C8_ZeroCeilingAlwaysRejected ==
    \A r \in Reqs :
        (AtGuard(req[r]) /\ req[r].checked
           /\ Configured(req[r].tierAtCheck, GuardOf(req[r]).limitType,
                         GuardOf(req[r]).featureKey)
           /\ Ceiling(req[r].tierAtCheck, GuardOf(req[r]).limitType,
                      GuardOf(req[r]).featureKey) = 0)
        => (req[r].pc = "done" /\ req[r].status = 429)

\* the limit check of a pipeline ran against the unlimited sentinel
UnlimitedCheck(q) ==
    /\ AtGuard(q) /\ q.checked
    /\ Configured(q.tierAtCheck, GuardOf(q).limitType, GuardOf(q).featureKey)
    /\ Ceiling(q.tierAtCheck, GuardOf(q).limitType, GuardOf(q).featureKey)
         = -1

\* C9: if the ceiling of (tier, window, feature) is the unlimited sentinel
\* -1, enforceUsageLimit never rejects, whatever the counter: it goes on to
\* the increment, and only a failing increment keeps it from returning.
C9_UnlimitedNeverRejected ==
    \A r \in Reqs :
        UnlimitedCheck(req[r]) =>
            /\ ~req[r].reached
            /\ \/ req[r].pc = "increment"
               \/ req[r].pc = "done" /\ req[r].status = 500

\* an unlimited check passed with the counter above every free ceiling
C9_Witness ==
    \E r \in Reqs :
        /\ UnlimitedCheck(req[r]) /\ req[r].pc = "increment"
        /\ db[U].usage[GuardField(req[r])] > 5

\* C10: a checkAndResetCounters call that follows another one of the same
\* pipeline with no time passing (and no throw) finds no reset due and
\* writes nothing: counters, increments made in between and both reset
\* timestamps stay as they are.
C10_SecondCallIsNoop ==
    [][\A r \in Reqs :
         (req[r].pc = "crc_find" /\ req[r].steady /\ req'[r] # req[r])
         => /\ db' = db
            /\ req'[r].pc # "crc_update"
            /\ ~req'[r].redo]_vars

\* a pipeline zeroed a window, incremented a counter, and its next
\* checkAndResetCounters call found nothing to do
C10_Witness ==
    \E r \in Reqs :
        /\ req[r].noop /\ req[r].stage = 3 /\ req[r].pc = "increment"
        /\ (req[r].didDaily \/ req[r].didMonthly)
        /\ db[U].usage["scriptGenerationThisMonth"] > 0

\* ------------------------------------------------- calls of the helpers
\* SpecCalls: the pure helpers of usageUtil.js applied to every argument of
\* a bounded set, one call per behaviour; hist holds the call and what it
\* returned.
\* Timestamps lie on days 1..MaxDay of months 0..LastMonth of two years, at
\* 00:00, 00:01 or 23:59; renewal days are 1..MaxDay.
CallDates == [year : {2025, 2026}, month : 0..LastMonth, date : 1..MaxDay,
              minute : {0} \cup Minutes]
RenewalDays == 1..MaxDay

InitCalls ==
    /\ now = FirstDate
    /\ db = [u \in UserIds |-> NewUser(FirstDate)]
    /\ req = [r \in Reqs |-> IdleReq]
    /\ mounted = {}
    /\ hist = [fn |-> "none"]
    /\ entities = [u \in UserIds |-> [k \in Collections |-> 0]]

CallIsBeforeToday ==
    /\ hist.fn = "none"
    /\ \E date \in CallDates \cup {NoDate}, today \in CallDates :
         hist' = [fn |-> "isBeforeToday", date |-> date, today |-> today,
                  result |-> isBeforeToday(date, today)]
    /\ UNCHANGED <<now, db, req, mounted, entities>>

CallIsAfterRenewalDate ==
    /\ hist.fn = "none"
    /\ \E lastReset \in CallDates \cup {NoDate}, today \in CallDates,
          day \in RenewalDays :
         /\ ~DateLT(today, lastReset)      \* no reset lies in the future
         /\ hist' = [fn |-> "isAfterRenewalDate", lastReset |-> lastReset,
                     renewalDay |-> day, today |-> today,
                     result |-> isAfterRenewalDate(lastReset, day, today)]
    /\ UNCHANGED <<now, db, req, mounted, entities>>

CallGetFieldNameForFeature ==
    /\ hist.fn = "none"
    /\ \E limitType \in LimitTypes :
       \E featureKey \in FeatureKeys(limitType)
                           \cup DOMAIN fieldMappings[limitType] :
         hist' = [fn |-> "getFieldNameForFeature", limitType |-> limitType,
                  featureKey |-> featureKey,
                  result |-> getFieldNameForFeature(limitType, featureKey)]
    /\ UNCHANGED <<now, db, req, mounted, entities>>

\* One invocation of a limit middleware as a function of what it meets:
\* principal: req.user is set; crcOk / incOk / countOk: the await of
\* checkAndResetCounters / incrementUsageCounter / countDocuments resolves;
\* reached: checkUsageLimit's hasReachedLimit; allows: storageLimit's
\* `limit < 0 || count < limit`.
\* enforceUsageLimit: the status it sends, 0 when it returns `user`
enforceUsageLimit(principal, crcOk, reached, incOk) ==
    IF ~principal THEN 401
    ELSE IF ~crcOk THEN 500
    ELSE IF reached THEN 429
    ELSE IF ~incOk THEN 500
    ELSE 0

\* dailyLimit / monthlyLimit calling next() whatever enforceUsageLimit sent
limitMiddlewareIgnoringHeadersSent(sent) ==
    [responses |-> IF sent # 0 THEN 1 ELSE 0, nextCalls |-> 1,
     status |-> sent]

\* dailyLimit / monthlyLimit: `if (res.headersSent) return;` else next()
limitMiddleware(sent) ==
    IF sent # 0 THEN [responses |-> 1, nextCalls |-> 0, status |-> sent]
    ELSE [responses |-> 0, nextCalls |-> 1, status |-> 0]

storageMiddleware(principal, crcOk, tier, countOk, allows) ==
    IF ~principal THEN [responses |-> 1, nextCalls |-> 0, status |-> 401]
    ELSE IF ~crcOk THEN [responses |-> 0, nextCalls |-> 1, status |-> 0]
    ELSE IF tier # "free"
    THEN [responses |-> 0, nextCalls |-> 1, status |-> 0]
    ELSE IF ~countOk THEN [responses |-> 0, nextCalls |-> 1, status |-> 0]
    ELSE IF allows THEN [responses |-> 0, nextCalls |-> 1, status |-> 0]
    ELSE [responses |-> 1, nextCalls |-> 0, status |-> 429]

CallLimitMiddleware ==
    /\ hist.fn = "none"
    /\ \E mw \in {"dailyLimit", "monthlyLimit"},
          principal, crcOk, reached, incOk \in BOOLEAN :
         hist' = [fn |-> "guard", mw |-> mw, principal |-> principal,
                  crcOk |-> crcOk, reached |-> reached, incOk |-> incOk,
                  result |-> limitMiddleware(
                      enforceUsageLimit(principal, crcOk, reached, incOk))]
    /\ UNCHANGED <<now, db, req, mounted, entities>>

CallStorageMiddleware ==
    /\ hist.fn = "none"
    /\ \E principal, crcOk, countOk, allows \in BOOLEAN, tier \in Tiers :
         hist' = [fn |-> "guard", mw |-> "storageLimit",
                  principal |-> principal, crcOk |-> crcOk, tier |-> tier,
                  countOk |-> countOk, allows |-> allows,
                  result |-> storageMiddleware(principal, crcOk, tier,
                                               countOk, allows)]
    /\ UNCHANGED <<now, db, req, mounted, entities>>

\* getUserUsage: the entry the report holds for one key of
\* limitConfig[tier][limitType], read from the stored document as it is
getUserUsage(user, limitType, featureKey) ==
    LET dbField == getFieldNameForFeature(limitType, featureKey)
        currentVal == user.usage[dbField]
        limitVal == limitConfig[user.subscriptionTier][limitType][featureKey]
    IN  IF limitVal < 0
        THEN [current |-> currentVal, unlimited |-> TRUE,
              limit |-> "unlimited", remaining |-> "unlimited"]
        ELSE [current |-> currentVal, unlimited |-> FALSE,
              limit |-> limitVal,
              remaining |-> IF limitVal - currentVal > 0
                            THEN limitVal - currentVal ELSE 0]

\* the document checkAndResetCounters hands to enforceUsageLimit at `today`
checkAndResetCounters(user, today) ==
    ResetUpdates(user,
                 isBeforeToday(user.usage["lastSearchReset"], today),
                 isAfterRenewalDate(user.usage["lastUsageReset"],
                                    renewalDay, today),
                 today)

\* the moments of a report: the day of the last resets, the day after, and
\* the same day of the next month
ReportDays == {FirstDate, [FirstDate EXCEPT !.date = 2],
               [FirstDate EXCEPT !.month = 1]}

\* stored counter values around a ceiling
ReportCounts(limitVal) ==
    {0, 1} \cup (IF limitVal > 1
                 THEN {limitVal - 1, limitVal, limitVal + 1} ELSE {})

\* GET usage report and, at the same moment, what enforceUsageLimit would
\* compare for the same key
CallGetUserUsage ==
    /\ hist.fn = "none"
    /\ \E tier \in Tiers, limitType \in {"daily", "monthly"},
          today \in ReportDays :
       \E featureKey \in DOMAIN limitConfig[tier][limitType] :
       \E count \in ReportCounts(limitConfig[tier][limitType][featureKey]) :
         LET dbField == getFieldNameForFeature(limitType, featureKey)
             user == [subscriptionTier |-> tier,
                      usage |-> [NewUsage(FirstDate)
                                   EXCEPT ![dbField] = count]]
         IN  hist' = [fn |-> "getUserUsage", tier |-> tier,
                      limitType |-> limitType, featureKey |-> featureKey,
                      today |-> today, stored |-> count,
                      report |-> getUserUsage(user, limitType, featureKey),
                      limitCheck |->
                          checkUsageLimit(checkAndResetCounters(user, today),
                                          limitType, featureKey)]
    /\ UNCHANGED <<now, db, req, mounted, entities>>

NextCalls ==
    \/ CallGetUserUsage
    \/ CallIsBeforeToday
    \/ CallIsAfterRenewalDate
    \/ CallGetFieldNameForFeature
    \/ CallLimitMiddleware
    \/ CallStorageMiddleware

SpecCalls == InitCalls /\ [][NextCalls]_vars

\* the calendar day of a timestamp as one number
DayNumber(d) == (d.year * 12 + d.month) * 31 + d.date

C13_DailyDecision ==
    (hist.fn = "isBeforeToday" /\ hist.date # NoDate) =>
        (hist.result <=> DayNumber(hist.date) < DayNumber(hist.today))

\* a timestamp of exactly 00:00 today, asked about at 23:59, is not
\* before today
C13_Witness ==
    /\ hist.fn = "isBeforeToday"
    /\ DayNumber(hist.date) = DayNumber(hist.today)
    /\ hist.date.minute = 0 /\ hist.today.minute = 1439
    /\ ~hist.result

\* C20: every feature key that appears in a tier's daily or monthly limit
\* table has an explicit entry in getFieldNameForFeature's mapping for that
\* window, so no configured key resolves to the derived <key>ThisMonth name.
C20_ResolverCoversLimitTable ==
    (hist.fn = "getFieldNameForFeature"
       /\ hist.featureKey \in FeatureKeys(hist.limitType))
    => /\ hist.featureKey \in DOMAIN fieldMappings[hist.limitType]
       /\ hist.result # DerivedName(hist.featureKey)

\* C11: free tier, monthly contentIdeations: when the last monthly reset lies
\* in an earlier month, the first call of the new month fires the monthly
\* reset, which zeroes the counter whatever it was, the call is Allowed, and
\* the persisted counter is exactly 1 after it.
C11_FirstCallOfMonth ==
    [][\A r \in Reqs :
         /\ (req[r].pc = "crc_update" /\ req[r].needsMonthly
               /\ req'[r].pc = "crc_refetch")
            => /\ db'[U].usage["ideationsThisMonth"] = 0
               /\ db'[U].usage["lastUsageReset"] = req[r].at
         /\ (req'[r].didMonthly /\ AtGuard(req'[r]) /\ req'[r].checked
               /\ GuardOf(req'[r]) = ML("contentIdeations")
               /\ req'[r].tierAtCheck = "free")
            => ~req'[r].reached
         /\ (req[r].pc = "increment" /\ req[r].didMonthly
               /\ GuardOf(req[r]) = ML("contentIdeations")
               /\ req[r].tierAtCheck = "free"
               /\ req'[r] # req[r] /\ db' # db)
            => db'[U].usage["ideationsThisMonth"] = 1]_vars

\* on day 2 of the next month a free user's POST /content/ideation has
\* performed the monthly reset, passed its guard and left the counter at 1
C11_Witness ==
    \E r \in Reqs :
        /\ now.month = 1 /\ now.date = 2
        /\ req[r].route = "content_ideation" /\ req[r].pc = "h_call"
        /\ req[r].didMonthly /\ req[r].tierAtCheck = "free"
        /\ db[U].usage["ideationsThisMonth"] = 1

\* a step of request r inside checkAndResetCounters
CrcStep(r) ==
    /\ req[r].pc \in {"crc_find", "crc_update", "crc_refetch"}
    /\ req'[r] # req[r]

\* in this step the window's timestamp and its counters move together or
\* not at all
WindowAtomic(stamp, fields) ==
    LET old == db[U].usage
        new == db'[U].usage
    IN  /\ new[stamp] # old[stamp] => \A f \in fields : new[f] = 0
        /\ (\E f \in fields : new[f] # old[f])
             => (new[stamp] # old[stamp] /\ \A f \in fields : new[f] = 0)

CheckStep(r) == ~req[r].checked /\ req'[r].checked /\ AtGuard(req'[r])

\* C15: a change of subscriptionTier takes effect on the very next
\* enforceUsageLimit call without any reset: the check compares the counter
\* with the ceiling of the tier the user has at that moment (Allowed if that
\* ceiling is above the counter or unlimited, Rejected only at or above that
\* tier's ceiling), and the tier change itself leaves every counter and
\* reset timestamp unchanged.
C15_TierChangeImmediate ==
    [][/\ db'[U].subscriptionTier # db[U].subscriptionTier
            => db'[U].usage = db[U].usage
       /\ \A r \in Reqs :
            CheckStep(r) =>
               LET g == GuardOf(req'[r])
                   tier == db'[U].subscriptionTier
                   v == db'[U].usage[GuardField(req'[r])]
               IN  /\ req'[r].tierAtCheck = tier
                   /\ Configured(tier, g.limitType, g.featureKey) =>
                        LET c == Ceiling(tier, g.limitType, g.featureKey)
                        IN  /\ (c < 0 \/ v < c) => ~req'[r].reached
                            /\ req'[r].reached => (c > 0 /\ v >= c)]_vars

\* a user who exhausted the free daily search ceiling and was moved to
\* creator_pro is Allowed on the same day with the counter untouched
C15_Witness ==
    \E r \in Reqs :
        /\ req[r].route = "trends_query" /\ req[r].pc = "increment"
        /\ req[r].tierAtCheck = "creator_pro"
        /\ ~req[r].didDaily /\ ~req[r].didMonthly
        /\ db[U].usage["dailySearchCount"]
             = limitConfig["free"]["daily"]["searchQueries"]
        /\ now = FirstDate

\* C18: if loading the user record or persisting the reset or the increment
\* fails during a dailyLimit or monthlyLimit check, the request proceeds to
\* its handler uncounted instead of being rejected: the only response a
\* limit guard ever sends is the 429 at the ceiling.
C18_GuardFailsOpen ==
    \A r \in Reqs :
        (AtGuard(req[r]) /\ req[r].pc = "done" /\ req[r].sentBy = "guard")
        => req[r].status = 429

\* the pipeline of q stands in storageLimit
StorageStage(q) ==
    /\ q.stage >= 1 /\ q.stage <= Len(Chain(q.route))
    /\ Chain(q.route)[q.stage].mw = "storageLimit"

\* storageLimit answered 429
StorageRejected(q) ==
    q.pc = "done" /\ q.status = 429 /\ q.sentBy = "storage"

\* C16: storageLimit lets every request of a non-free tier through without
\* counting; for a free-tier user it counts the user's documents of the
\* collection and answers 429, reporting count and ceiling, exactly when the
\* count is at or above the free permanent ceiling (savedIdeas 200,
\* calendarItems 100, insightsTotal 200), and lets the request through
\* otherwise; a 429 of storageLimit comes from such a count only.
C16_StorageDecision ==
    [][\A r \in Reqs :
        LET q == req[r]
            after == req'[r]
            k == StorageKey(q.route)
            count == entities[q.userId][k]
            ceiling == CASE k = "savedIdeas" -> 200
                         [] k = "calendarItems" -> 100
                         [] k = "insightsTotal" -> 200
                         [] OTHER -> 0
            passed == after.stage = q.stage + 1 /\ after.handlerRan
        IN  /\ (StorageStage(q) /\ (CrcFind(r) \/ CrcRefetch(r))
                  /\ after.pc # "crc_update") =>
                 IF db[q.userId].subscriptionTier # "free"
                 THEN passed /\ entities' = entities
                 ELSE after.pc = "sl_count" /\ after.stage = q.stage
            /\ (StorageStage(q) /\ SlCountStep(r)) =>
                 /\ StorageRejected(after) <=> count >= ceiling
                 /\ StorageRejected(after) =>
                      after.respCurrent = count /\ after.respLimit = ceiling
                 /\ ~StorageRejected(after) => passed
            /\ (StorageRejected(after) /\ ~StorageRejected(q)) =>
                 StorageStage(q) /\ SlCountStep(r)]_vars

\* storageLimit has turned a free-tier user away whose count was exactly the
\* ceiling
C16_Witness ==
    \E r \in Reqs :
        /\ StorageRejected(req[r])
        /\ req[r].tierAtCheck = "free"
        /\ req[r].respCurrent = req[r].respLimit
        /\ req[r].respCurrent = entities[req[r].userId][StorageKey(req[r].route)]

\* C17 as stated: while a request stands in storageLimit no usage counter
\* and no entity changes.
C17_CheckChangesNothing ==
    [][\A r \in Reqs :
        (StorageStage(req[r]) /\ req'[r] # req[r]) =>
            /\ entities' = entities
            /\ \A f \in CounterFields :
                 db'[req[r].userId].usage[f] = db[req[r].userId].usage[f]]_vars

\* C17, amended: storageLimit's decision depends only on the current number
\* of the user's documents, whatever was created, deleted or refused before;
\* the check creates and deletes no entity, increments no usage counter and
\* changes no tier; its only write is the window reset of the
\* checkAndResetCounters call it starts with.
C17_CheckDrivenByLiveCount ==
    [][\A r \in Reqs :
        LET q == req[r]
            u == q.userId
            k == StorageKey(q.route)
        IN  (StorageStage(q) /\ req'[r] # q) =>
              /\ entities' = entities
              /\ db'[u].subscriptionTier = db[u].subscriptionTier
              /\ \A f \in CounterFields :
                   db'[u].usage[f] \in {db[u].usage[f], 0}
              /\ db' # db =>
                   /\ q.pc = "crc_update"
                   /\ db'[u] = ResetUpdates(db[u], q.needsDaily,
                                            q.needsMonthly, q.at)
              /\ SlCountStep(r) =>
                   (StorageRejected(req'[r]) <=>
                      entities[u][k] >= limitConfig["free"]["permanent"][k])
    ]_vars

\* a free user who was refused at the ceiling has deleted an entity and the
\* next create request has passed storageLimit with one document fewer than
\* the ceiling
C17_Witness ==
    /\ hist.last = "readmitted"
    /\ \E r \in Reqs :
         /\ req[r].route \in StorageRoutes
         /\ req[r].pc = "h_create"
         /\ req[r].tierAtCheck = "free"
         /\ entities[req[r].userId][StorageKey(req[r].route)]
              = limitConfig["free"]["permanent"][StorageKey(req[r].route)] - 1

\* C19: when an await of a quota middleware rejects, every call site applies
\* the same policy: resetCounters, dailyLimit, monthlyLimit and storageLimit
\* either all let the request continue or all end it.
C19_OneFailurePolicy == hist.passed = {} \/ hist.stopped = {}

\* the number of dailyLimit / monthlyLimit guards of the route that charge
\* usage field f
Charges(route, f) ==
    Cardinality({i \in 1..Len(Chain(route)) :
        /\ Chain(route)[i].mw \in {"dailyLimit", "monthlyLimit"}
        /\ getFieldNameForFeature(Chain(route)[i].limitType,
                                  Chain(route)[i].featureKey) = f})

\* the handler of q has started and has not answered with a success
HandlerUnfinishedOrFailed(q) ==
    /\ q.handlerRan
    /\ \/ q.pc \in {"h_find", "h_call", "h_inc"}
       \/ q.pc = "done" /\ q.status \notin {200, 201}

\* C21: consumption is charged before the feature's work and never refunded:
\* once the handler of an allowed request has started, every counter a guard
\* of the route charges is persisted at its pre-request value plus 1, and it
\* is still there when the handler fails (400 on validation, 500 on a
\* failing external call, the handler's own 429); no other counter moved.
C21_ChargedBeforeWorkNoRefund ==
    \A r \in Reqs :
        HandlerUnfinishedOrFailed(req[r]) =>
            \A f \in CounterFields :
                db[req[r].userId].usage[f]
                    = hist.pre[f] + Charges(req[r].route, f)

\* the handler of an allowed request has failed with 500 and the guard's
\* counter stands one above its pre-request value
C21_Witness ==
    \E r \in Reqs :
        /\ req[r].handlerRan /\ req[r].pc = "done"
        /\ req[r].status = 500 /\ req[r].sentBy = "handler"
        /\ \E f \in CounterFields :
             /\ Charges(req[r].route, f) = 1
             /\ hist.pre[f] > 0
             /\ db[req[r].userId].usage[f] = hist.pre[f] + 1

\* the window kind of the quota that turned q away: the kind of the guard it
\* stands in, or daily for the handlers' own free-tier ceilings
RejectionKind(q) ==
    IF q.handlerRan THEN "daily" ELSE Chain(q.route)[q.stage].limitType

\* the counter value and the ceiling the rejection of q was decided on
RejectionUsage(q) ==
    IF q.handlerRan THEN db[q.userId].usage[HandlerField(q.route)]
    ELSE IF StorageStage(q)
    THEN entities[q.userId][Chain(q.route)[q.stage].featureKey]
    ELSE db[q.userId].usage[GuardField(q)]
RejectionCeiling(q) ==
    IF q.handlerRan THEN HandlerLimit(q.route)
    ELSE limitConfig[q.tierAtCheck][Chain(q.route)[q.stage].limitType]
                    [Chain(q.route)[q.stage].featureKey]

\* C22: every quota rejection is a 429 whose body carries the observed
\* current usage, the ceiling and upgradeTier = true; a daily rejection
\* carries resetTime 'tomorrow', a monthly one a next-period hint, a storage
\* rejection no reset hint.
C22_RejectionsAreStructured ==
    \A r \in Reqs :
        (req[r].pc = "done" /\ req[r].status = 429) =>
            /\ req[r].respUpgradeTier
            /\ req[r].respCurrent = RejectionUsage(req[r])
            /\ req[r].respLimit = RejectionCeiling(req[r])
            /\ RejectionKind(req[r]) = "daily" =>
                 req[r].respResetTime = "tomorrow"
            /\ RejectionKind(req[r]) = "monthly" =>
                 req[r].respResetTime \notin {"none", "tomorrow"}
            /\ RejectionKind(req[r]) = "permanent" =>
                 req[r].respResetTime = "none"

\* C23: usage records are isolated per user: a user's document is written
\* only by a step of that user's own pipeline, no step of one user's
\* pipeline (check, reset, increment) changes a counter, a reset timestamp
\* or the tier of another user, and every limit decision is the function of
\* the requesting user's own document.
C23_UsersIsolated ==
    [][\A v \in Principals :
        /\ db'[v] # db[v] =>
             \E r \in Reqs : req[r].userId = v /\ req'[r].pc # req[r].pc
        /\ \A r \in Reqs :
             (req[r].userId # v /\ req'[r].pc # req[r].pc) => db'[v] = db[v]
        /\ \A r \in Reqs :
             (req[r].userId = v /\ CheckStep(r)) =>
                req'[r].reached =
                    checkUsageLimit(db[v], GuardOf(req'[r]).limitType,
                                    GuardOf(req'[r]).featureKey).hasReachedLimit
    ]_vars

\* the day has rolled over: the first user's pipeline has reset that user's
\* daily window while the second user's record still holds yesterday's
\* stamp and count
C23_Witness ==
    /\ req[1].didDaily
    /\ InFlight(req[2])
    /\ db["u2"].usage["lastSearchReset"] = FirstDate
    /\ \E f \in DailyResetFields :
         db["u2"].usage[f] > 0 /\ db["u1"].usage[f] = 0

\* q was answered 500 by enforceUsageLimit after its limit check had passed
IncrementFailed(q) ==
    /\ q.pc = "done" /\ q.status = 500 /\ q.sentBy = "guard"
    /\ q.checked /\ ~q.reached

Consumed(q) == q.route # "none" /\ q.stage > Len(Chain(q.route))

\* C25: under concurrent requests that straddle one window rollover no
\* allowed consumption is lost: the counter equals the number of requests
\* allowed since the rollover; no late reset write sets it back to 0.
C25_NoConsumptionLostAtRollover ==
    db[U].usage["dailySearchCount"]
        = Cardinality({r \in Reqs : Consumed(req[r])})

\* C26: for a free-tier user, under every interleaving of concurrent create
\* requests guarded by storageLimit, the number of persisted entities of a
\* collection never exceeds the free tier's permanent ceiling.
C26_NeverPastStorageCeiling ==
    \A k \in Collections :
        db[U].subscriptionTier = "free" =>
            entities[U][k] <= limitConfig["free"]["permanent"][k]

\* q was answered 429 by the second of the two limit guards of its route
RejectedBySecondGuard(q) ==
    /\ q.pc = "done" /\ q.status = 429 /\ ~q.handlerRan
    /\ q.route \in TwoGuardRoutes /\ q.stage = Len(Chain(q.route))

\* C27: on a route guarded by two limits in sequence, a request the second
\* guard rejects with 429 leaves every usage counter at its pre-request
\* value: the first guard's consumption is not charged.
C27_SecondGuardRejectionChargesNothing ==
    \A r \in Reqs :
        RejectedBySecondGuard(req[r]) =>
            \A f \in CounterFields :
                db[req[r].userId].usage[f] = hist.pre[f]

\* C28: every invocation of dailyLimit, monthlyLimit or storageLimit ends in
\* exactly one outcome on every path: next() called once and no response
\* sent by the guard, or one response sent and next() never called; a
\* missing principal is answered 401, a reached limit 429.
C28_ExactlyOneOutcome ==
    hist.fn = "guard" =>
        /\ \/ hist.result.nextCalls = 1 /\ hist.result.responses = 0
           \/ hist.result.nextCalls = 0 /\ hist.result.responses = 1
        /\ ~hist.principal => hist.result.status = 401
        /\ hist.result.status = 429 => hist.result.nextCalls = 0

\* a guard met a request without a principal and answered 401 without
\* calling next()
C28_Witness ==
    /\ hist.fn = "guard"
    /\ ~hist.principal
    /\ hist.result.status = 401
    /\ hist.result.nextCalls = 0

\* the usage fields of user u that the step changes
Touched(u) == {f \in UsageFields : db'[u].usage[f] # db[u].usage[f]}

\* request r's checkAndResetCounters writes its update
ResetWrites(r) == req[r].pc = "crc_update" /\ req'[r].pc = "crc_refetch"

\* request r's incrementUsageCounter writes its $inc
IncrementWrites(r) ==
    req[r].pc = "increment" /\ req'[r].pc # "increment" /\ db' # db

\* C29: the daily and monthly windows reset independently: a daily reset
\* leaves every monthly counter and lastUsageReset unchanged, a monthly
\* reset leaves every daily counter and lastSearchReset unchanged, and an
\* increment of one feature's counter leaves every other counter and both
\* reset timestamps unchanged.
C29_WindowsIndependent ==
    [][\A r \in Reqs :
         LET q == req[r]
             u == q.userId
         IN  /\ ResetWrites(r) /\ q.needsDaily /\ ~q.needsMonthly =>
                  Touched(u) \subseteq DailyResetFields \cup {"lastSearchReset"}
             /\ ResetWrites(r) /\ q.needsMonthly /\ ~q.needsDaily =>
                  Touched(u) \subseteq MonthlyResetFields \cup {"lastUsageReset"}
             /\ IncrementWrites(r) =>
                  LET m == Chain(q.route)[q.stage]
                  IN  Touched(u) =
                        {getFieldNameForFeature(m.limitType, m.featureKey)}]_vars

\* a monthly-only reset has just been written: the daily stamp is older
\* than the monthly one and a daily counter kept its non-zero value
C29_Witness ==
    \E r \in Reqs :
        /\ req[r].pc = "crc_refetch"
        /\ req[r].needsMonthly /\ ~req[r].needsDaily
        /\ db[req[r].userId].usage["lastUsageReset"] = req[r].at
        /\ db[req[r].userId].usage["lastSearchReset"] # req[r].at
        /\ \E f \in DailyResetFields : db[req[r].userId].usage[f] > 0

\* enforceUsageLimit compares a counter with a ceiling for this key: the
\* ceiling is configured and neither 0 nor negative
Compares(tier, limitType, featureKey) ==
    /\ HasLimit(tier, limitType, featureKey)
    /\ limitConfig[tier][limitType][featureKey] > 0

\* C30: the usage report agrees with the enforcer: for every tier, window
\* and feature key listed by getUserUsage, the reported current and limit
\* are the values enforceUsageLimit would compare at that moment, and the
\* report shows remaining = 0 iff the next enforceUsageLimit call for that
\* feature would be rejected.
C30_ReportAgreesWithEnforcer ==
    hist.fn = "getUserUsage" =>
        /\ ~hist.report.unlimited =>
             /\ Compares(hist.tier, hist.limitType, hist.featureKey)
             /\ hist.report.current = hist.limitCheck.currentUsage
             /\ hist.report.limit = hist.limitCheck.limit
        /\ (~hist.report.unlimited /\ hist.report.remaining = 0)
             <=> hist.limitCheck.hasReachedLimit
====
